---- MODULE Spec2Model ----
(***************************************************************************)
(* Knowledge_Graph_Generator: the graph aggregator                         *)
(* (src/src/graph_builder.py), the entity deduplicator and the cached      *)
(* embedding-model handle (src/src/embeddings.py).                         *)
(*                                                                         *)
(* and the app's triplet normalisation (src/app.py).                       *)
(*                                                                         *)
(* Four specifications share the module's variables:                       *)
(*   SpecGraph    one call of build_graph_from_triplets, one loop          *)
(*                iteration per step, then the preds conversion;           *)
(*   SpecDedup    one call of deduplicate_entities, followed by a second   *)
(*                call on the first call's output;                         *)
(*   SpecGetModel several threads calling get_model;                       *)
(*   SpecNormalize the app normalising the extracted triplets against the  *)
(*                representatives and handing them to the graph builder.   *)
(***************************************************************************)
EXTENDS Integers, Sequences, FiniteSets, TLC

VARIABLES
    \* build_graph_from_triplets
    triplets,   \* the argument: a sequence of <<s, p, o>>
    k,          \* position of the for loop of line 15 (next triplet to read)
    nodes,      \* G's nodes: node key -> [label, type]
    edges,      \* G's edges: <<s, o>> -> [label, weight, preds]
    gpc,        \* "loop" (lines 15-26), "convert" (lines 28-29), "done" (line 30)
    \* embeddings.py, module state
    _model,     \* the cached handle: None, or the handle a constructor call made
    \* deduplicate_entities
    entity_texts,  \* the argument: a sequence of mention strings
    threshold,     \* the argument, in hundredths (app.py passes threshold/100.0)
    embs,          \* what embed_texts returned: one vector per mention
    i,             \* the outer loop's index (1-based here, 0-based in the code)
    visited,       \* the set of assigned indices
    clusters,      \* the clusters opened so far, each a sequence of indices
    reps,          \* the value returned
    raisedExc,     \* the exception that left the call; "" when none did
    loadCalls,     \* runs of SentenceTransformer(MODEL_NAME) during the call
    encodeCalls,   \* runs of m.encode during the call
    pass,          \* 1: the first call; 2: the call on the first call's output
    prev,          \* in pass 2, the first call's output
    dpc,           \* "start", "outer" (lines 36-48), "done", "raised"
    \* threads calling get_model
    tpc,        \* per thread: "idle", "check", "construct", "assign", "return"
    made,       \* per thread: the handle its constructor call returned
    got,        \* per thread: what its latest get_model call returned
    tcalls,     \* per thread: the get_model calls it has started
    ctorRuns,   \* runs of SentenceTransformer(MODEL_NAME) in the process
    assigns,    \* assignments to _model in the process
    \* app.py, lines 94-108
    raw_triplets,         \* the app's `triplets`: what relation extraction gave
    npos,                 \* position of the comprehension of line 102
    normalized_triplets,  \* the list the comprehension builds
    npc                   \* "normalize" (line 102), "built" (after line 108)

gvars == <<triplets, k, nodes, edges, gpc>>

dvars == <<entity_texts, threshold, embs, i, visited, clusters, reps, raisedExc,
           loadCalls, encodeCalls, pass, prev, dpc>>

tvars == <<tpc, made, got, tcalls, ctorRuns, assigns>>

nvars == <<raw_triplets, npos, normalized_triplets, npc>>

vars == <<gvars, _model, dvars, tvars, nvars>>

----------------------------------------------------------------------------
(* Bounds and input universes *)

\* longest triplet list given to build_graph_from_triplets
MaxTriplets == 3

\* Python's None; no entity string of the universe below equals it
None == "<None>"

\* the (subject, object) pairs of the input triplets: an edge, its reverse, a
\* self-loop, an empty subject, an empty object, an absent subject and an
\* absent object
Pairs == { <<"A", "B">>, <<"B", "A">>, <<"A", "A">>, <<"", "B">>, <<"A", "">>,
           <<None, "B">>, <<"A", None>> }

Predicates == {"works_at", "founded"}

TripletInputs == {<<so[1], p, so[2]>> : so \in Pairs, p \in Predicates}

SeqsUpTo(S, n) == UNION {[1..m -> S] : m \in 0..n}

----------------------------------------------------------------------------
(* build_graph_from_triplets *)

\* line 16: `if s is None or o is None: continue`
Skipped(t) == t[1] = None \/ t[3] = None

\* lines 18-21: `if not G.has_node(x): G.add_node(x, label=x, type="entity")`
AddNode(ns, x) ==
    IF x \in DOMAIN ns
    THEN ns
    ELSE [y \in DOMAIN ns \cup {x} |->
            IF y = x THEN [label |-> x, type |-> "entity"] ELSE ns[y]]

\* FoldEdge without the `+= 1` of line 23
FoldEdgeKeepsWeight(e, p) == [e EXCEPT !.preds = e.preds \cup {p}]

\* FoldEdge assigning {p} to preds where line 24 adds p to it
FoldEdgeReplacesPreds(e, p) == [e EXCEPT !.weight = e.weight + 1, !.preds = {p}]

\* FoldEdge also overwriting the label with the latest predicate
FoldEdgeRelabels(e, p) ==
    [e EXCEPT !.label = p, !.weight = e.weight + 1, !.preds = e.preds \cup {p}]

\* lines 23-24: `G[s][o]["weight"] += 1; G[s][o]["preds"].add(p)`
FoldEdge(e, p) ==
    [e EXCEPT !.weight = e.weight + 1, !.preds = e.preds \cup {p}]

\* line 26: `G.add_edge(s, o, label=p, weight=1, preds={p})`
NewEdge(p) == [label |-> p, weight |-> 1, preds |-> {p}]

\* lines 22-26: the edge branch of one iteration
AddTriplet(es, s, p, o) ==
    IF <<s, o>> \in DOMAIN es
    THEN [es EXCEPT ![<<s, o>>] = FoldEdge(es[<<s, o>>], p)]
    ELSE [e \in DOMAIN es \cup {<<s, o>>} |->
            IF e = <<s, o>> THEN NewEdge(p) ELSE es[e]]

\* the orders in which iterating a set can yield its elements
Orderings(S) ==
    {q \in [1..Cardinality(S) -> S] : \A a \in S : \E n \in DOMAIN q : q[n] = a}

\* line 29: `list(data.get("preds", []))` of a set of str: the iteration order
\* of a set of strings follows the strings' hashes, which are salted per
\* process, so any order of the elements can come out
ListOfSet(S) == Orderings(S)

\* the state before build_graph_from_triplets builds anything
GraphIdle ==
    /\ k = 1
    /\ nodes = <<>>
    /\ edges = <<>>
    /\ gpc = "loop"

\* the state before deduplicate_entities is called, in a fresh process
DedupIdle ==
    /\ _model = None
    /\ embs = <<>>
    /\ i = 1
    /\ visited = {}
    /\ clusters = <<>>
    /\ reps = <<>>
    /\ raisedExc = ""
    /\ loadCalls = 0
    /\ encodeCalls = 0
    /\ pass = 1
    /\ prev = <<>>
    /\ dpc = "start"

\* number of threads that call get_model
NumThreads == 2

\* get_model calls per thread
MaxCalls == 2

Threads == 1..NumThreads

\* no thread is inside get_model and none has called it
ThreadsIdle ==
    /\ tpc = [t \in Threads |-> "idle"]
    /\ made = [t \in Threads |-> None]
    /\ got = [t \in Threads |-> None]
    /\ tcalls = [t \in Threads |-> 0]
    /\ ctorRuns = 0
    /\ assigns = 0

\* the app has not reached line 102
NormIdle ==
    /\ raw_triplets = <<>>
    /\ npos = 1
    /\ normalized_triplets = <<>>
    /\ npc = "normalize"

GraphInit ==
    /\ triplets \in SeqsUpTo(TripletInputs, MaxTriplets)
    /\ GraphIdle
    /\ entity_texts = <<>>
    /\ threshold = 80
    /\ DedupIdle
    /\ ThreadsIdle
    /\ NormIdle

\* lines 15-17: an iteration that hits `continue`
GraphSkip ==
    /\ gpc = "loop"
    /\ k <= Len(triplets)
    /\ Skipped(triplets[k])
    /\ k' = k + 1
    /\ UNCHANGED <<triplets, nodes, edges, gpc, _model, dvars, tvars, nvars>>

\* lines 15-26: an iteration that folds its triplet into G
GraphFold ==
    /\ gpc = "loop"
    /\ k <= Len(triplets)
    /\ ~Skipped(triplets[k])
    /\ LET s == triplets[k][1]
           p == triplets[k][2]
           o == triplets[k][3]
       IN  /\ nodes' = AddNode(AddNode(nodes, s), o)
           /\ edges' = AddTriplet(edges, s, p, o)
    /\ k' = k + 1
    /\ UNCHANGED <<triplets, gpc, _model, dvars, tvars, nvars>>

\* line 15: the for loop ends
GraphLoopEnd ==
    /\ gpc = "loop"
    /\ k > Len(triplets)
    /\ gpc' = "convert"
    /\ UNCHANGED <<triplets, k, nodes, edges, _model, dvars, tvars, nvars>>

\* lines 28-30: every edge's preds set becomes a list, then `return G`
GraphConvert ==
    /\ gpc = "convert"
    /\ \E order \in [DOMAIN edges -> UNION {ListOfSet(edges[e].preds) : e \in DOMAIN edges}] :
          /\ \A e \in DOMAIN edges : order[e] \in ListOfSet(edges[e].preds)
          /\ edges' = [e \in DOMAIN edges |-> [edges[e] EXCEPT !.preds = order[e]]]
    /\ gpc' = "done"
    /\ UNCHANGED <<triplets, k, nodes, _model, dvars, tvars, nvars>>

GraphNext == GraphSkip \/ GraphFold \/ GraphLoopEnd \/ GraphConvert

SpecGraph == GraphInit /\ [][GraphNext]_vars

----------------------------------------------------------------------------
(* Claims about build_graph_from_triplets *)

Range(q) == {q[n] : n \in DOMAIN q}

\* the triplets read so far that the loop did not skip
Folded == {n \in 1..(k - 1) : ~Skipped(triplets[n])}

\* those of them on the ordered pair e
FoldedOn(e) == {n \in Folded : <<triplets[n][1], triplets[n][3]>> = e}

\* an edge's predicates as a set, before and after the conversion of line 29
PredSet(e) == IF gpc = "done" THEN Range(edges[e].preds) ELSE edges[e].preds

\* C1: every edge's weight is the number of non-skipped triplets read so far
\* (at the return: of the whole input) with the edge's subject and object, so
\* it is at least 1; and the pairs that have an edge are exactly the pairs of
\* the non-skipped triplets, one edge per pair.
C1_WeightCountsTriplets ==
    /\ DOMAIN edges = {<<triplets[n][1], triplets[n][3]>> : n \in Folded}
    /\ \A e \in DOMAIN edges :
          /\ edges[e].weight = Cardinality(FoldedOn(e))
          /\ edges[e].weight >= 1
    /\ gpc = "done" => k = Len(triplets) + 1

\* C1 witness: the call returned a graph in which two triplets share one
\* edge while another triplet of the input was skipped.
C1_Witness ==
    /\ gpc = "done"
    /\ \E n \in 1..Len(triplets) : Skipped(triplets[n])
    /\ \E e \in DOMAIN edges : edges[e].weight = 2

\* a subject or object that is empty or absent
EmptyOrAbsent(x) == x = None \/ x = ""

\* the triplets read so far with a subject and an object
WellFormed == {n \in 1..(k - 1) :
                  ~EmptyOrAbsent(triplets[n][1]) /\ ~EmptyOrAbsent(triplets[n][3])}

\* C2: a triplet whose subject or object is empty or absent is skipped: the
\* nodes, the edges, the weights and the preds are those of the other
\* triplets alone (so ("A", p, "") alone gives 0 nodes and 0 edges).
C2_EmptyOrAbsentIsSkipped ==
    /\ DOMAIN nodes = {triplets[n][1] : n \in WellFormed} \cup {triplets[n][3] : n \in WellFormed}
    /\ DOMAIN edges = {<<triplets[n][1], triplets[n][3]>> : n \in WellFormed}
    /\ \A e \in DOMAIN edges :
          /\ edges[e].weight =
                Cardinality({n \in WellFormed : <<triplets[n][1], triplets[n][3]>> = e})
          /\ PredSet(e) =
                {triplets[n][2] : n \in {m \in WellFormed : <<triplets[m][1], triplets[m][3]>> = e}}

\* the predicates of the triplets ns, each once, in the order of their first
\* occurrence among the triplets 1..n
RECURSIVE FirstSeen(_, _)
FirstSeen(ns, n) ==
    IF n = 0 THEN <<>>
    ELSE LET before == FirstSeen(ns, n - 1)
         IN  IF n \in ns /\ triplets[n][2] \notin Range(before)
             THEN Append(before, triplets[n][2])
             ELSE before

\* C4: the preds sequence of every edge of the returned graph is determined by
\* the input: it lists the edge's predicates in first-seen order.
C4_PredsOrderIsFirstSeen ==
    gpc = "done" =>
        \A e \in DOMAIN edges : edges[e].preds = FirstSeen(FoldedOn(e), Len(triplets))

\* C8: on every edge, preds has no duplicate entry and its elements are exactly
\* the distinct predicates of the non-skipped triplets on the edge's pair.  It
\* holds after every iteration, so a triplet identical to an earlier one adds 1
\* to weight (C1) and nothing to preds.
C8_PredsAreDistinctPredicates ==
    \A e \in DOMAIN edges :
        /\ PredSet(e) = {triplets[n][2] : n \in FoldedOn(e)}
        /\ gpc = "done" =>
              /\ \A a, b \in DOMAIN edges[e].preds :
                    edges[e].preds[a] = edges[e].preds[b] => a = b
              /\ Len(edges[e].preds) = Cardinality({triplets[n][2] : n \in FoldedOn(e)})

\* C8 witness: the input of the specification's example, two identical
\* triplets and a third with another predicate on the same pair, gave one edge
\* of weight 3 with two preds.
C8_Witness ==
    /\ gpc = "done"
    /\ triplets = << <<"A", "works_at", "B">>, <<"A", "works_at", "B">>,
                     <<"A", "founded", "B">> >>
    /\ DOMAIN edges = {<<"A", "B">>}
    /\ edges[<<"A", "B">>].weight = 3
    /\ Len(edges[<<"A", "B">>].preds) = 2
    /\ edges[<<"A", "B">>].label = "works_at"

\* the first of the triplets read so far that was folded into the edge e
FirstFoldedOn(e) == CHOOSE n \in FoldedOn(e) : \A m \in FoldedOn(e) : n <= m

\* an iteration that folds the triplet k into an edge that already exists
FoldsIntoExistingEdge ==
    /\ gpc = "loop"
    /\ k <= Len(triplets)
    /\ k' = k + 1
    /\ ~Skipped(triplets[k])
    /\ <<triplets[k][1], triplets[k][3]>> \in DOMAIN edges

\* what such an iteration changes: on its edge the weight and the preds, the
\* label staying; no other edge, no node and no node attribute
OnlyWeightAndPredsChange ==
    LET pair == <<triplets[k][1], triplets[k][3]>>
    IN  /\ nodes' = nodes
        /\ DOMAIN edges' = DOMAIN edges
        /\ \A e \in DOMAIN edges \ {pair} : edges'[e] = edges[e]
        /\ edges'[pair].label = edges[pair].label
        /\ edges'[pair].weight = edges[pair].weight + 1
        /\ edges'[pair].preds = edges[pair].preds \cup {triplets[k][2]}

\* C11: every edge's label is the predicate of the first non-skipped triplet
\* on its pair, and a later triplet on the pair changes only that edge's weight
\* and preds: the label, the other edges and the nodes stay as they are.
C11_LabelIsFirstPredicate ==
    /\ [](\A e \in DOMAIN edges : edges[e].label = triplets[FirstFoldedOn(e)][2])
    /\ [][FoldsIntoExistingEdge => OnlyWeightAndPredsChange]_vars

\* C11 witness: a second triplet with another predicate was folded into the
\* edge A -> B while the edge B -> A existed; A -> B kept its first label.
C11_Witness ==
    /\ gpc = "done"
    /\ triplets = << <<"A", "works_at", "B">>, <<"B", "founded", "A">>,
                     <<"A", "founded", "B">> >>
    /\ edges[<<"A", "B">>].label = "works_at"
    /\ edges[<<"A", "B">>].weight = 2
    /\ edges[<<"B", "A">>].label = "founded"
    /\ edges[<<"B", "A">>].weight = 1

----------------------------------------------------------------------------
(* deduplicate_entities (src/src/embeddings.py) *)

\* longest mention list given to deduplicate_entities
MaxMentions == 3

\* the mention strings of the inputs
Mentions == {"Bob", "Robert", "Bobby", "Robbie", "Alice", "?"}

\* the thresholds of the inputs, in hundredths: the least the app's slider
\* gives, its default, and the greatest
Thresholds == {50, 80, 95}

\* The embedding provider: m.encode maps each string to a fixed vector.
\* Cosines: Bob-Robert 0.9, Bob-Bobby 0.8, Bob-Robbie 0.7, Robert-Bobby 0.9,
\* Robert-Robbie 0.94, Bobby-Robbie 0.86, Alice-Bob 0.1, Alice-Robert 0.1,
\* Alice-Bobby 0.5, Alice-Robbie 0.08; "?" embeds to the zero vector.
Encode(text) ==
    CASE text = "Bob"    -> <<5, 0, 0, 0>>
      [] text = "Robert" -> <<9, 3, 3, 1>>
      [] text = "Bobby"  -> <<8, 6, 0, 0>>
      [] text = "Robbie" -> <<7, 5, 5, 1>>
      [] text = "Alice"  -> <<1, 7, -7, 1>>
      [] OTHER           -> <<0, 0, 0, 0>>

\* what a failing provider raises: the constructor when the model cannot be
\* loaded, encode when the backend fails
ProviderErrors == {"OSError", "RuntimeError"}

\* the handle the n-th constructor call of the process returns
Handle(n) == "SentenceTransformer#" \o ToString(n)

\* np.dot of two vectors
Dot(a, b) == a[1] * b[1] + a[2] * b[2] + a[3] * b[3] + a[4] * b[4]

\* lines 30-32 and 44-45: `float(np.dot(embs_norm[i], embs_norm[j])) >= threshold`
\* for the rows a and b of embs and threshold = t/100, in exact arithmetic.  A
\* row of norm 0 is divided by 1e-9 and stays the zero vector, so its cosine
\* with anything is 0; otherwise the cosine is d / sqrt(na * nb), compared with
\* t/100 by signs and squares.
CosAtLeast(a, b, t) ==
    LET d  == Dot(a, b)
        na == Dot(a, a)
        nb == Dot(b, b)
    IN  IF na = 0 \/ nb = 0 THEN 0 >= t
        ELSE IF d >= 0
             THEN t <= 0 \/ d * d * 10000 >= t * t * na * nb
             ELSE t < 0 /\ d * d * 10000 <= t * t * na * nb

\* ScanLater comparing j with the cluster's latest member, not with its seed
RECURSIVE ScanLaterChained(_, _, _, _)
ScanLaterChained(s, j, vis, cl) ==
    IF j > Len(embs) THEN cl
    ELSE IF j \in vis THEN ScanLaterChained(s, j + 1, vis, cl)
    ELSE IF CosAtLeast(embs[cl[Len(cl)]], embs[j], threshold)
         THEN ScanLaterChained(s, j + 1, vis \cup {j}, Append(cl, j))
         ELSE ScanLaterChained(s, j + 1, vis, cl)

\* ScanLater without the `if j in visited: continue` of lines 42-43
RECURSIVE ScanLaterNoSkip(_, _, _, _)
ScanLaterNoSkip(s, j, vis, cl) ==
    IF j > Len(embs) THEN cl
    ELSE IF CosAtLeast(embs[s], embs[j], threshold)
         THEN ScanLaterNoSkip(s, j + 1, vis \cup {j}, Append(cl, j))
         ELSE ScanLaterNoSkip(s, j + 1, vis, cl)

\* ScanLater with the comparison of line 45 inverted
RECURSIVE ScanLaterBelow(_, _, _, _)
ScanLaterBelow(s, j, vis, cl) ==
    IF j > Len(embs) THEN cl
    ELSE IF j \in vis THEN ScanLaterBelow(s, j + 1, vis, cl)
    ELSE IF ~CosAtLeast(embs[s], embs[j], threshold)
         THEN ScanLaterBelow(s, j + 1, vis \cup {j}, Append(cl, j))
         ELSE ScanLaterBelow(s, j + 1, vis, cl)

\* lines 41-47: the inner loop from j on, for the cluster cl seeded at s with
\* the assigned set vis; the value is the finished cluster
RECURSIVE ScanLater(_, _, _, _)
ScanLater(s, j, vis, cl) ==
    IF j > Len(embs) THEN cl
    ELSE IF j \in vis THEN ScanLater(s, j + 1, vis, cl)
    ELSE IF CosAtLeast(embs[s], embs[j], threshold)
         THEN ScanLater(s, j + 1, vis \cup {j}, Append(cl, j))
         ELSE ScanLater(s, j + 1, vis, cl)

\* MaxByLen keeping the last of the longest
RECURSIVE MaxByLenLast(_, _)
MaxByLenLast(texts, n) ==
    IF n = 1 THEN texts[1]
    ELSE LET best == MaxByLenLast(texts, n - 1)
         IN  IF Len(texts[n]) >= Len(best) THEN texts[n] ELSE best

\* `max(texts, key=len)`: the first of the longest, kept from texts[1..n]
RECURSIVE MaxByLen(_, _)
MaxByLen(texts, n) ==
    IF n = 1 THEN texts[1]
    ELSE LET best == MaxByLen(texts, n - 1)
         IN  IF Len(texts[n]) > Len(best) THEN texts[n] ELSE best

\* line 49: `[max([entity_texts[i] for i in c], key=len) for c in clusters]`
Representatives(cs) ==
    [c \in DOMAIN cs |->
        MaxByLen([m \in DOMAIN cs[c] |-> entity_texts[cs[c][m]]], Len(cs[c]))]

DedupInit ==
    /\ entity_texts \in SeqsUpTo(Mentions, MaxMentions)
    /\ threshold \in Thresholds
    /\ DedupIdle
    /\ triplets = <<>>
    /\ GraphIdle
    /\ ThreadsIdle
    /\ NormIdle

\* lines 27-28: `if not entity_texts: return []`
DedupEmpty ==
    /\ dpc = "start"
    /\ entity_texts = <<>>
    /\ reps' = <<>>
    /\ dpc' = "done"
    /\ UNCHANGED <<gvars, tvars, nvars, _model, entity_texts, threshold, embs, i, visited, clusters,
                   raisedExc, loadCalls, encodeCalls, pass, prev>>

\* lines 15-16 as run by this call: the constructor runs when nothing is cached
LoadsModel == _model = None

\* lines 29-35 (with 13-21): the model is there or gets loaded, encode returns
\* the embeddings, and the loop state is set up
DedupEmbed ==
    /\ dpc = "start"
    /\ entity_texts # <<>>
    /\ _model' = IF LoadsModel THEN Handle(1) ELSE _model
    /\ loadCalls' = IF LoadsModel THEN loadCalls + 1 ELSE loadCalls
    /\ encodeCalls' = encodeCalls + 1
    /\ embs' = [n \in DOMAIN entity_texts |-> Encode(entity_texts[n])]
    /\ i' = 1
    /\ visited' = {}
    /\ clusters' = <<>>
    /\ dpc' = "outer"
    /\ UNCHANGED <<gvars, tvars, nvars, entity_texts, threshold, reps, raisedExc, pass, prev>>

\* lines 29, 20, 15-16: SentenceTransformer(MODEL_NAME) raises; nothing
\* catches it, so it leaves deduplicate_entities
DedupLoadFails ==
    /\ dpc = "start"
    /\ entity_texts # <<>>
    /\ LoadsModel
    /\ loadCalls' = loadCalls + 1
    /\ \E exc \in ProviderErrors : raisedExc' = exc
    /\ dpc' = "raised"
    /\ UNCHANGED <<gvars, tvars, nvars, _model, entity_texts, threshold, embs, i, visited, clusters,
                   reps, encodeCalls, pass, prev>>

\* lines 29, 20-21: the model is there or gets loaded, m.encode raises; nothing
\* catches it, so it leaves deduplicate_entities
DedupEncodeFails ==
    /\ dpc = "start"
    /\ entity_texts # <<>>
    /\ _model' = IF LoadsModel THEN Handle(1) ELSE _model
    /\ loadCalls' = IF LoadsModel THEN loadCalls + 1 ELSE loadCalls
    /\ encodeCalls' = encodeCalls + 1
    /\ \E exc \in ProviderErrors : raisedExc' = exc
    /\ dpc' = "raised"
    /\ UNCHANGED <<gvars, tvars, nvars, entity_texts, threshold, embs, i, visited, clusters, reps,
                   pass, prev>>

\* lines 36-38: `if i in visited: continue`
DedupSkipVisited ==
    /\ dpc = "outer"
    /\ i <= Len(embs)
    /\ i \in visited
    /\ i' = i + 1
    /\ UNCHANGED <<gvars, tvars, nvars, _model, entity_texts, threshold, embs, visited, clusters,
                   reps, raisedExc, loadCalls, encodeCalls, pass, prev, dpc>>

\* lines 36-48: a new cluster seeded at i, filled by the inner loop
DedupOpenCluster ==
    /\ dpc = "outer"
    /\ i <= Len(embs)
    /\ i \notin visited
    /\ LET cluster == ScanLater(i, i + 1, visited \cup {i}, <<i>>)
       IN  /\ visited' = visited \cup {cluster[m] : m \in DOMAIN cluster}
           /\ clusters' = Append(clusters, cluster)
    /\ i' = i + 1
    /\ UNCHANGED <<gvars, tvars, nvars, _model, entity_texts, threshold, embs, reps, raisedExc,
                   loadCalls, encodeCalls, pass, prev, dpc>>

\* lines 49-50: the representatives are computed and returned
DedupReturn ==
    /\ dpc = "outer"
    /\ i > Len(embs)
    /\ reps' = Representatives(clusters)
    /\ dpc' = "done"
    /\ UNCHANGED <<gvars, tvars, nvars, _model, entity_texts, threshold, embs, i, visited, clusters,
                   raisedExc, loadCalls, encodeCalls, pass, prev>>

\* the caller passes the returned list to deduplicate_entities again, with the
\* same threshold
DedupAgain ==
    /\ dpc = "done"
    /\ pass = 1
    /\ entity_texts' = reps
    /\ prev' = reps
    /\ pass' = 2
    /\ embs' = <<>>
    /\ i' = 1
    /\ visited' = {}
    /\ clusters' = <<>>
    /\ reps' = <<>>
    /\ loadCalls' = 0
    /\ encodeCalls' = 0
    /\ dpc' = "start"
    /\ UNCHANGED <<gvars, tvars, nvars, _model, threshold, raisedExc>>

DedupNext ==
    \/ DedupEmpty
    \/ DedupEmbed
    \/ DedupLoadFails
    \/ DedupEncodeFails
    \/ DedupSkipVisited
    \/ DedupOpenCluster
    \/ DedupReturn
    \/ DedupAgain

SpecDedup == DedupInit /\ [][DedupNext]_vars

----------------------------------------------------------------------------
(* Claims about deduplicate_entities *)

\* the indices of cluster c
Members(c) == Range(clusters[c])

\* the indices assigned to the clusters opened before cluster c
EarlierMembers(c) == UNION {Members(b) : b \in 1..(c - 1)}

\* the call returned a list for a non-empty input
Returned == dpc = "done" /\ entity_texts # <<>>

\* C3 (as claimed): deduplicating the output of a deduplication returns the
\* same set of strings.
C3_Idempotent ==
    (pass = 2 /\ dpc = "done") => Range(reps) = Range(prev)

\* no two different strings of the sequence q are similar at the threshold
Separated(q) ==
    \A a, b \in DOMAIN q :
        q[a] # q[b] => ~CosAtLeast(Encode(q[a]), Encode(q[b]), threshold)

\* C3 (amended): deduplicating the output of a deduplication returns a subset
\* of that output's strings, and the same set when no two different strings of
\* that output have a cosine similarity >= threshold.
C3_IdempotentWhenSeparated ==
    (pass = 2 /\ dpc = "done") =>
        /\ Range(reps) \subseteq Range(prev)
        /\ Separated(prev) => Range(reps) = Range(prev)

\* C3 witness: the second call returned the two dissimilar representatives the
\* first call had returned.
C3_Witness ==
    /\ pass = 2
    /\ dpc = "done"
    /\ prev = <<"Robert", "Alice">>
    /\ Separated(prev)
    /\ reps = prev

\* C6: j is in the cluster seeded at s exactly when j = s, or j > s, j is in no
\* cluster opened earlier and the cosine of j and s is >= threshold; with
\* cos(Bob, Robert) = 0.9 and Alice at 0.1 from both, [Bob, Robert, Alice] gives
\* {Bob, Robert}, {Alice} at 0.8 and three singletons at 0.95; a cosine equal to
\* the threshold (Bob, Bobby at 0.8) joins.
C6_SeedOnlyMembership ==
    /\ dpc \in {"outer", "done"} =>
          \A c \in DOMAIN clusters :
              LET s == clusters[c][1]
              IN  \A j \in DOMAIN embs :
                      j \in Members(c) <=>
                          \/ j = s
                          \/ /\ j > s
                             /\ j \notin EarlierMembers(c)
                             /\ CosAtLeast(embs[s], embs[j], threshold)
    /\ (Returned /\ entity_texts = <<"Bob", "Robert", "Alice">>) =>
          /\ threshold = 80 => clusters = << <<1, 2>>, <<3>> >>
          /\ threshold = 95 => clusters = << <<1>>, <<2>>, <<3>> >>
    /\ (Returned /\ entity_texts = <<"Bob", "Bobby">> /\ threshold = 80) =>
          clusters = << <<1, 2>> >>

\* C6 witness: A similar to B and B similar to C, A not similar to C: C is left
\* out of the cluster of A and B.
C6_Witness ==
    /\ Returned
    /\ entity_texts = <<"Bob", "Robert", "Robbie">>
    /\ threshold = 80
    /\ CosAtLeast(embs[1], embs[2], threshold)
    /\ CosAtLeast(embs[2], embs[3], threshold)
    /\ ~CosAtLeast(embs[1], embs[3], threshold)
    /\ clusters = << <<1, 2>>, <<3>> >>

\* the members of cluster c whose string is longest
Longest(c) ==
    {m \in Members(c) :
        \A q \in Members(c) : Len(entity_texts[q]) <= Len(entity_texts[m])}

\* C7: each cluster's representative is the string of the member that is first
\* in input order among the cluster's longest members; {Bob, Robert, Bobby}
\* gives Robert.
C7_RepresentativeIsFirstLongest ==
    Returned =>
        /\ \A c \in DOMAIN clusters :
              \E m \in Longest(c) :
                  /\ \A q \in Longest(c) : m <= q
                  /\ reps[c] = entity_texts[m]
        /\ (entity_texts = <<"Bob", "Robert", "Bobby">> /\ threshold = 80) =>
              reps = <<"Robert">>

\* C7 witness: Robbie and Robert, equally long, share a cluster and the one
\* first in the input represents it.
C7_Witness ==
    /\ Returned
    /\ entity_texts = <<"Robbie", "Bob", "Robert">>
    /\ clusters = << <<1, 3>>, <<2>> >>
    /\ reps = <<"Robbie", "Bob">>

\* C9: when the provider fails, the call fails with EmbeddingBackendError, the
\* provider was called once, and no representatives are returned.
C9_FailsWithEmbeddingBackendError ==
    dpc = "raised" =>
        /\ raisedExc = "EmbeddingBackendError"
        /\ loadCalls <= 1
        /\ encodeCalls <= 1
        /\ reps = <<>>

\* C10: the clusters are disjoint, hold exactly the assigned indices, which
\* include every index the outer loop has passed, and are ordered by seed; at
\* the return for a non-empty input they partition the indices and the output
\* has one representative per cluster, a string of that cluster, so between 1
\* and Len(entity_texts) representatives.
C10_ClustersPartitionMentions ==
    /\ dpc \in {"outer", "done"} =>
          /\ \A b, c \in DOMAIN clusters : b # c => Members(b) \cap Members(c) = {}
          /\ \A c \in DOMAIN clusters : Len(clusters[c]) = Cardinality(Members(c))
          /\ UNION {Members(c) : c \in DOMAIN clusters} = visited
          /\ visited \subseteq DOMAIN embs
          /\ \A j \in DOMAIN embs : j < i => j \in visited
          /\ \A b, c \in DOMAIN clusters : b < c => clusters[b][1] < clusters[c][1]
    /\ Returned =>
          /\ visited = DOMAIN entity_texts
          /\ Len(reps) = Len(clusters)
          /\ \A c \in DOMAIN reps : reps[c] \in {entity_texts[m] : m \in Members(c)}
          /\ 1 <= Len(reps)
          /\ Len(reps) <= Len(entity_texts)

\* C10 witness: a mention assigned to the first cluster is passed over when a
\* later seed scans it, and three mentions give two representatives.
C10_Witness ==
    /\ Returned
    /\ entity_texts = <<"Bob", "Robbie", "Robert">>
    /\ threshold = 80
    /\ clusters = << <<1, 3>>, <<2>> >>
    /\ reps = <<"Robert", "Robbie">>

----------------------------------------------------------------------------
(* get_model (src/src/embeddings.py) called from several threads.  The       *)
(* function takes no lock, and a thread can be switched out between the      *)
(* test of line 15, the constructor call and the store of line 16.           *)

GetModelInit ==
    /\ ThreadsIdle
    /\ NormIdle
    /\ triplets = <<>>
    /\ GraphIdle
    /\ entity_texts = <<>>
    /\ threshold = 80
    /\ DedupIdle

\* line 13: thread t calls get_model
GmCall(t) ==
    /\ tpc[t] = "idle"
    /\ tcalls[t] < MaxCalls
    /\ tcalls' = [tcalls EXCEPT ![t] = tcalls[t] + 1]
    /\ tpc' = [tpc EXCEPT ![t] = "check"]
    /\ UNCHANGED <<gvars, dvars, nvars, _model, made, got, ctorRuns, assigns>>

\* line 15: `if _model is None` finds None
GmCheckNone(t) ==
    /\ tpc[t] = "check"
    /\ _model = None
    /\ tpc' = [tpc EXCEPT ![t] = "construct"]
    /\ UNCHANGED <<gvars, dvars, nvars, _model, made, got, tcalls, ctorRuns, assigns>>

\* line 15: `if _model is None` finds a handle
GmCheckSet(t) ==
    /\ tpc[t] = "check"
    /\ _model # None
    /\ tpc' = [tpc EXCEPT ![t] = "return"]
    /\ UNCHANGED <<gvars, dvars, nvars, _model, made, got, tcalls, ctorRuns, assigns>>

\* line 16, right-hand side: `SentenceTransformer(MODEL_NAME)` makes a handle
GmConstruct(t) ==
    /\ tpc[t] = "construct"
    /\ ctorRuns' = ctorRuns + 1
    /\ made' = [made EXCEPT ![t] = Handle(ctorRuns + 1)]
    /\ tpc' = [tpc EXCEPT ![t] = "assign"]
    /\ UNCHANGED <<gvars, dvars, nvars, _model, got, tcalls, assigns>>

\* line 16, the store: `_model = ...`
GmAssign(t) ==
    /\ tpc[t] = "assign"
    /\ _model' = made[t]
    /\ assigns' = assigns + 1
    /\ tpc' = [tpc EXCEPT ![t] = "return"]
    /\ UNCHANGED <<gvars, dvars, nvars, made, got, tcalls, ctorRuns>>

\* line 17: `return _model`
GmReturn(t) ==
    /\ tpc[t] = "return"
    /\ got' = [got EXCEPT ![t] = _model]
    /\ tpc' = [tpc EXCEPT ![t] = "idle"]
    /\ UNCHANGED <<gvars, dvars, nvars, _model, made, tcalls, ctorRuns, assigns>>

GetModelNext ==
    \E t \in Threads :
        \/ GmCall(t)
        \/ GmCheckNone(t)
        \/ GmCheckSet(t)
        \/ GmConstruct(t)
        \/ GmAssign(t)
        \/ GmReturn(t)

SpecGetModel == GetModelInit /\ [][GetModelNext]_vars

\* C5: in every interleaving of get_model calls the constructor runs at most
\* once and _model is assigned at most once.
C5_InitializedAtMostOnce ==
    /\ ctorRuns <= 1
    /\ assigns <= 1

----------------------------------------------------------------------------
(* The app's normalisation of the extracted triplets (src/app.py, lines      *)
(* 94-108).  reps is what deduplicate_entities returned: strings of the      *)
(* entity mentions, none of them empty (an entity span has at least one      *)
(* token).                                                                   *)

\* longest representative list
MaxReps == 2

\* longest list of extracted triplets
MaxRaw == 2

\* the representatives of the inputs
RepStrings == {"Bob", "Rob", "BOBBY"}

\* the (subject, object) pairs of the extracted triplets: mentions equal to a
\* representative up to case, inside one, around one, matching none, empty
\* and absent
RawPairs == { <<"bob", "Robert">>, <<"Eve", "Bobby">>, <<"", "bob">>,
              <<"Robert", None>>, <<"Bobby", "bob">> }

RawInputs == {<<so[1], "related_to", so[2]>> : so \in RawPairs}

\* str.lower() of one character
LowerChar(c) ==
    CASE c = "A" -> "a" [] c = "B" -> "b" [] c = "C" -> "c" [] c = "D" -> "d"
      [] c = "E" -> "e" [] c = "F" -> "f" [] c = "G" -> "g" [] c = "H" -> "h"
      [] c = "I" -> "i" [] c = "J" -> "j" [] c = "K" -> "k" [] c = "L" -> "l"
      [] c = "M" -> "m" [] c = "N" -> "n" [] c = "O" -> "o" [] c = "P" -> "p"
      [] c = "Q" -> "q" [] c = "R" -> "r" [] c = "S" -> "s" [] c = "T" -> "t"
      [] c = "U" -> "u" [] c = "V" -> "v" [] c = "W" -> "w" [] c = "X" -> "x"
      [] c = "Y" -> "y" [] c = "Z" -> "z" [] OTHER -> c

\* `x.lower()`
RECURSIVE Lower(_)
Lower(x) ==
    IF Len(x) = 0 THEN x
    ELSE LowerChar(SubSeq(x, 1, 1)) \o Lower(SubSeq(x, 2, Len(x)))

\* `sub in x` for two strings
Contains(sub, x) ==
    \E a \in 0..(Len(x) - Len(sub)) : SubSeq(x, a + 1, a + Len(sub)) = sub

\* line 98: `e.lower() in r.lower() or r.lower() in e.lower()`
Matches(e, r) ==
    Contains(Lower(e), Lower(r)) \/ Contains(Lower(r), Lower(e))

\* `not e` of line 95 and `s and o` of line 102: None and "" are falsy
Falsy(e) == e = None \/ e = ""

\* NormalizeFrom testing `e.lower() in r.lower()` alone
RECURSIVE NormalizeFromOneWay(_, _)
NormalizeFromOneWay(e, n) ==
    IF n > Len(reps) THEN e
    ELSE IF Contains(Lower(e), Lower(reps[n])) THEN reps[n]
    ELSE NormalizeFromOneWay(e, n + 1)

\* lines 97-100: the loop over reps from reps[n] on
RECURSIVE NormalizeFrom(_, _)
NormalizeFrom(e, n) ==
    IF n > Len(reps) THEN e
    ELSE IF Matches(e, reps[n]) THEN reps[n]
    ELSE NormalizeFrom(e, n + 1)

\* lines 94-100: `def normalize(e)`
normalize(e) == IF Falsy(e) THEN e ELSE NormalizeFrom(e, 1)

NormalizeInit ==
    /\ raw_triplets \in SeqsUpTo(RawInputs, MaxRaw)
    /\ npos = 1
    /\ normalized_triplets = <<>>
    /\ npc = "normalize"
    /\ reps \in SeqsUpTo(RepStrings, MaxReps)
    /\ dpc = "done"
    /\ _model = Handle(1)
    /\ entity_texts = <<>>
    /\ threshold = 80
    /\ embs = <<>>
    /\ i = 1
    /\ visited = {}
    /\ clusters = <<>>
    /\ raisedExc = ""
    /\ loadCalls = 0
    /\ encodeCalls = 0
    /\ pass = 1
    /\ prev = <<>>
    /\ triplets = <<>>
    /\ GraphIdle
    /\ ThreadsIdle

\* line 102, `if s and o` false: the triplet is left out
NormalizeDrop ==
    /\ npc = "normalize"
    /\ npos <= Len(raw_triplets)
    /\ Falsy(raw_triplets[npos][1]) \/ Falsy(raw_triplets[npos][3])
    /\ npos' = npos + 1
    /\ UNCHANGED <<gvars, _model, dvars, tvars, raw_triplets, normalized_triplets, npc>>

\* line 102, `if s and o` true: (normalize(s), p, normalize(o)) is appended
NormalizeKeep ==
    /\ npc = "normalize"
    /\ npos <= Len(raw_triplets)
    /\ ~(Falsy(raw_triplets[npos][1]) \/ Falsy(raw_triplets[npos][3]))
    /\ normalized_triplets' =
          Append(normalized_triplets,
                 <<normalize(raw_triplets[npos][1]), raw_triplets[npos][2],
                   normalize(raw_triplets[npos][3])>>)
    /\ npos' = npos + 1
    /\ UNCHANGED <<gvars, _model, dvars, tvars, raw_triplets, npc>>

\* lines 102-108: the comprehension is done and the list is passed to
\* build_graph_from_triplets
NormalizeBuild ==
    /\ npc = "normalize"
    /\ npos > Len(raw_triplets)
    /\ triplets' = normalized_triplets
    /\ npc' = "built"
    /\ UNCHANGED <<k, nodes, edges, gpc, _model, dvars, tvars, raw_triplets, npos,
                   normalized_triplets>>

NormalizeNext == NormalizeDrop \/ NormalizeKeep \/ NormalizeBuild

SpecNormalize == NormalizeInit /\ [][NormalizeNext]_vars

----------------------------------------------------------------------------
(* Claims about the app's normalisation *)

\* the positions of reps whose representative and the mention e contain one
\* another, case ignored
MatchingReps(e) ==
    {n \in DOMAIN reps :
        \/ Contains(Lower(e), Lower(reps[n]))
        \/ Contains(Lower(reps[n]), Lower(e))}

\* what the claim says normalize gives for a non-empty mention
FirstMatchOrSelf(e) ==
    IF MatchingReps(e) = {} THEN e
    ELSE reps[CHOOSE n \in MatchingReps(e) : \A m \in MatchingReps(e) : n <= m]

\* the extracted triplets read so far that have a subject and an object
Kept == {n \in 1..(npos - 1) :
            ~Falsy(raw_triplets[n][1]) /\ ~Falsy(raw_triplets[n][3])}

\* C12: the normalized list holds, in order, one triplet per extracted triplet
\* with a non-empty subject and object, its subject and object replaced by the
\* first representative in list order that contains or is contained in it,
\* case ignored, or kept when none is; so the triplets passed to
\* build_graph_from_triplets all have a non-empty subject and object.
C12_NormalizeFirstMatch ==
    /\ Len(normalized_triplets) = Cardinality(Kept)
    /\ \A n \in Kept :
          normalized_triplets[Cardinality({m \in Kept : m <= n})] =
              <<FirstMatchOrSelf(raw_triplets[n][1]), raw_triplets[n][2],
                FirstMatchOrSelf(raw_triplets[n][3])>>
    /\ \A n \in DOMAIN normalized_triplets :
          ~Falsy(normalized_triplets[n][1]) /\ ~Falsy(normalized_triplets[n][3])
    /\ npc = "built" =>
          /\ npos = Len(raw_triplets) + 1
          /\ triplets = normalized_triplets
    /\ (reps = <<"BOBBY", "Bob">> /\ npos > 1
          /\ raw_triplets[1] = <<"Bobby", "related_to", "bob">>) =>
          normalized_triplets[1] = <<"BOBBY", "related_to", "BOBBY">>
    /\ (reps = <<"Bob", "Rob">> /\ npos > 1
          /\ raw_triplets[1] = <<"bob", "related_to", "Robert">>) =>
          normalized_triplets[1] = <<"Bob", "related_to", "Rob">>

\* C12 witness: a triplet with an empty subject was dropped, and of the next
\* one "Eve", matching nothing, was kept and "Bobby" became "Bob", the first of
\* the two representatives that match it; the list was passed on.
C12_Witness ==
    /\ npc = "built"
    /\ reps = <<"Bob", "BOBBY">>
    /\ raw_triplets = << <<"", "related_to", "bob">>, <<"Eve", "related_to", "Bobby">> >>
    /\ triplets = << <<"Eve", "related_to", "Bob">> >>

====
